---- MODULE Spec2Model ----
(***************************************************************************)
(* A model of edlib-rs (src/src/edlibrs.rs): the Rust interface            *)
(* edlibAlignRs / edlibAlignmentToCigarRs over the native edlib library.   *)
(* The Rust code (configuration conversion, copy of the C result into      *)
(* EdlibAlignResultRs, assertions) is translated from the source.  The     *)
(* native functions edlibAlign and edlibAlignmentToCigar are linked in by  *)
(* build.rs and have no source in the repository; they are modelled from   *)
(* the specification (sections 4.1 - 4.5) and the repository's tests.      *)
(*                                                                         *)
(* The interface keeps no state between calls: a behaviour is a sequence   *)
(* of scenarios, each a call of edlibAlignRs (optionally followed by the   *)
(* encoding of the alignment it returned) or a call of                     *)
(* edlibAlignmentToCigarRs; the state is the scenario's calls with what    *)
(* they returned.                                                          *)
(***************************************************************************)
EXTENDS Integers, Sequences, FiniteSets, TLC

\* ------------------------------------------------------------------ bounds
MaxLen == 3
MaxK == 3
MaxOps == 3
MaxEqLen == 1
MaxPairs == 2

\* --------------------------------------------------------------- constants
EDLIB_STATUS_OK == 0
EDLIB_STATUS_ERROR == 1

EDLIB_MODE_NW == "EDLIB_MODE_NW"
EDLIB_MODE_SHW == "EDLIB_MODE_SHW"
EDLIB_MODE_HW == "EDLIB_MODE_HW"
EdlibAlignModeRs == {EDLIB_MODE_NW, EDLIB_MODE_SHW, EDLIB_MODE_HW}

EDLIB_TASK_DISTANCE == "EDLIB_TASK_DISTANCE"
EDLIB_TASK_LOC == "EDLIB_TASK_LOC"
EDLIB_TASK_PATH == "EDLIB_TASK_PATH"
EdlibAlignTaskRs == {EDLIB_TASK_DISTANCE, EDLIB_TASK_LOC, EDLIB_TASK_PATH}

EDLIB_CIGAR_STANDARD == "EDLIB_CIGAR_STANDARD"
EDLIB_CIGAR_EXTENDED == "EDLIB_CIGAR_EXTENDED"
EdlibCigarFormatRs == {EDLIB_CIGAR_STANDARD, EDLIB_CIGAR_EXTENDED}

\* Edit operations, as the bytes of an alignment.
EDLIB_EDOP_MATCH == 0
EDLIB_EDOP_INSERT == 1
EDLIB_EDOP_DELETE == 2
EDLIB_EDOP_MISMATCH == 3
EdlibEdopRs == {EDLIB_EDOP_MATCH, EDLIB_EDOP_INSERT, EDLIB_EDOP_DELETE, EDLIB_EDOP_MISMATCH}

\* Option<T> and C pointers: None / NULL is the empty tuple, Some(x) is <<x>>.
None == << >>
Some(x) == <<x>>
NULL == << >>
Ptr(x) == <<x>>

\* ----------------------------------------------------------------- helpers
Min2(a, b) == IF a <= b THEN a ELSE b
Max2(a, b) == IF a >= b THEN a ELSE b
Min3(a, b, c) == Min2(a, Min2(b, c))

RECURSIVE SeqMin(_)
SeqMin(s) == IF Len(s) = 1 THEN s[1] ELSE Min2(s[1], SeqMin(Tail(s)))

RECURSIVE Reverse(_)
Reverse(s) == IF s = << >> THEN << >> ELSE Append(Reverse(Tail(s)), s[1])

RECURSIVE SeqsUpTo(_, _)
SeqsUpTo(S, n) ==
    IF n = 0 THEN {<< >>}
    ELSE LET shorter == SeqsUpTo(S, n - 1)
         IN  shorter \cup {Append(s, x) : s \in shorter, x \in S}

\* Positions of seq s (zero-based, ascending) whose value is v.
RECURSIVE PositionsOf(_, _, _)
PositionsOf(s, v, from) ==
    IF from > Len(s) THEN << >>
    ELSE IF s[from] = v THEN <<from - 1>> \o PositionsOf(s, v, from + 1)
    ELSE PositionsOf(s, v, from + 1)

\* ===================================================== the native library
\* The number of different characters in query and target together.
AlphabetLength(query, target) ==
    Cardinality({query[i] : i \in 1..Len(query)} \cup {target[j] : j \in 1..Len(target)})

\* AlphabetMapper: the bytes that need a class, those of query, target and
\* equality pairs.
SymbolsOf(query, target, pairs) ==
    ({query[i] : i \in 1..Len(query)} \cup {target[j] : j \in 1..Len(target)})
    \cup ({pairs[i].first : i \in 1..Len(pairs)} \cup {pairs[i].second : i \in 1..Len(pairs)})

\* AlphabetMapper, union-find: cls maps a byte to the representative of its
\* class; a pair joins the class of its second byte to that of its first.
Union(cls, pair) ==
    [b \in DOMAIN cls |-> IF cls[b] = cls[pair.second] THEN cls[pair.first] ELSE cls[b]]

RECURSIVE Classes(_, _)
Classes(cls, pairs) ==
    IF pairs = << >> THEN cls ELSE Classes(Union(cls, pairs[1]), Tail(pairs))

ClassMap(query, target, pairs) ==
    Classes([b \in SymbolsOf(query, target, pairs) |-> b], pairs)

\* A sequence, byte by byte, as class ids.
Transform(s, cls) == [i \in 1..Len(s) |-> cls[s[i]]]

\* The bound the engine starts from when k < 0; it is doubled until a
\* distance is found.
AutoStartK == 1

\* A score outside the band of bound k is only known to exceed k.
BandCap(v, k) == IF v > k THEN k + 1 ELSE v

\* One column of the sweep: rows 0..Len(query) for one target symbol c, from
\* the previous column prev; acc holds the rows already computed (acc[r + 1]
\* is row r, and the next row to compute is row Len(acc)).
RECURSIVE FillColumn(_, _, _, _, _)
FillColumn(acc, prev, c, query, k) ==
    IF Len(acc) > Len(query) THEN acc
    ELSE FillColumn(
             Append(acc,
                    BandCap(Min3(prev[Len(acc) + 1] + 1,
                                 acc[Len(acc)] + 1,
                                 prev[Len(acc)] + (IF query[Len(acc)] = c THEN 0 ELSE 1)),
                            k)),
             prev, c, query, k)

\* Row 0 of column j (j target symbols consumed): free in infix mode.
TopRow(mode, j, k) == IF mode = 2 THEN 0 ELSE BandCap(j, k)

FirstColumn(query, k) == [r \in 1..(Len(query) + 1) |-> BandCap(r - 1, k)]

\* The sweep over the target: cols[j + 1] is the column after j target symbols.
RECURSIVE SweepColumns(_, _, _, _, _)
SweepColumns(cols, query, target, mode, k) ==
    IF Len(cols) > Len(target) THEN cols
    ELSE SweepColumns(
             Append(cols,
                    FillColumn(<<TopRow(mode, Len(cols), k)>>, cols[Len(cols)],
                               target[Len(cols)], query, k)),
             query, target, mode, k)

Matrix(query, target, mode, k) ==
    SweepColumns(<<FirstColumn(query, k)>>, query, target, mode, k)

\* Score of the whole query (m symbols) at every target end position.
LastRow(cols, m) == [j \in 1..(Len(cols) - 1) |-> cols[j + 1][m + 1]]

EndScores(query, target, mode, k) == LastRow(Matrix(query, target, mode, k), Len(query))

\* The minimal score: in global mode only the last target position counts.
BestScore(scores, mode) == IF mode = 0 THEN scores[Len(scores)] ELSE SeqMin(scores)

\* The distance (-1 when above the bound k) and the end positions reaching it.
BoundedResult(scores, mode, best, k) ==
    IF best > k THEN [editDistance |-> -1, endLocations |-> << >>]
    ELSE [editDistance |-> best,
          endLocations |-> IF mode = 0 THEN <<Len(scores) - 1>>
                           ELSE PositionsOf(scores, best, 1)]

ScoresResult(scores, mode, k) == BoundedResult(scores, mode, BestScore(scores, mode), k)

\* DistanceEngine for non-empty query and target, bound k >= 0.
DistanceBounded(query, target, mode, k) ==
    ScoresResult(EndScores(query, target, mode, k), mode, k)

\* k < 0: successively doubled bounds until a distance is found.
RECURSIVE DistanceAuto(_, _, _, _)
AutoStep(r, query, target, mode, k) ==
    IF r.editDistance # -1 THEN r ELSE DistanceAuto(query, target, mode, 2 * k)

DistanceAuto(query, target, mode, k) ==
    AutoStep(DistanceBounded(query, target, mode, k), query, target, mode, k)

\* An empty query (m = 0) or an empty target (n = 0).
EmptyCase(m, n, mode) ==
    IF mode = 0
    THEN [editDistance |-> Max2(m, n), endLocations |-> <<n - 1>>]
    ELSE [editDistance |-> m,
          endLocations |-> IF m = 0 THEN [j \in 1..n |-> j - 1] ELSE << >>]

\* A distance above a bound k >= 0 is reported as -1 with no locations.
BoundCheck(r, k) ==
    IF k >= 0 /\ r.editDistance > k
    THEN [editDistance |-> -1, endLocations |-> << >>]
    ELSE r

\* DistanceEngine, edge cases of empty sequences included.
DistanceEngine(query, target, mode, k) ==
    BoundCheck(IF Len(query) = 0 \/ Len(target) = 0
               THEN EmptyCase(Len(query), Len(target), mode)
               ELSE IF k < 0 THEN DistanceAuto(query, target, mode, AutoStartK)
               ELSE DistanceBounded(query, target, mode, k),
               k)

Last(s) == s[Len(s)]

\* LocationFinder: the start position paired with end position e, for the
\* known distance d.  Global and prefix alignments start at the first target
\* symbol; an infix alignment takes the longest span, found by a prefix sweep
\* of the reversed query over the reversed target prefix ending at e.
StartLocation(query, target, mode, e, d) ==
    IF mode # 2 THEN 0
    ELSE e - Last(PositionsOf(EndScores(Reverse(query),
                                        Reverse(SubSeq(target, 1, e + 1)), 1, d),
                              d, 1))

LocationFinder(query, target, mode, ends, d) ==
    [i \in 1..Len(ends) |-> StartLocation(query, target, mode, ends[i], d)]

\* PathTracer: backtrack through the matrix of query against the target span,
\* from cell (i, j) to cell (0, 0); cols[j + 1][i + 1] is the score of i query
\* symbols against j span symbols.  Diagonal is preferred to vertical (a query
\* symbol alone) and vertical to horizontal (a target symbol alone).  The
\* operations come out last first.
RECURSIVE Backtrack(_, _, _, _, _)
Backtrack(cols, query, span, i, j) ==
    IF i = 0 /\ j = 0 THEN << >>
    ELSE IF i > 0 /\ j > 0
            /\ cols[j + 1][i + 1] = cols[j][i] + (IF query[i] = span[j] THEN 0 ELSE 1)
    THEN <<IF query[i] = span[j] THEN EDLIB_EDOP_MATCH ELSE EDLIB_EDOP_MISMATCH>>
         \o Backtrack(cols, query, span, i - 1, j - 1)
    ELSE IF i > 0 /\ cols[j + 1][i + 1] = cols[j + 1][i] + 1
    THEN <<EDLIB_EDOP_INSERT>> \o Backtrack(cols, query, span, i - 1, j)
    ELSE <<EDLIB_EDOP_DELETE>> \o Backtrack(cols, query, span, i, j - 1)

TraceSpan(query, span, d) ==
    Reverse(Backtrack(Matrix(query, span, 0, d), query, span, Len(query), Len(span)))

PathTracer(query, target, start, end, d) ==
    TraceSpan(query, SubSeq(target, start + 1, end + 1), d)

\* The C result record of edlibAlign, from the distance, the start locations
\* (NULL if not computed) and the alignment (NULL if not computed).
AlignResultC(query, target, dist, starts, path) ==
    [status |-> EDLIB_STATUS_OK,
     editDistance |-> dist.editDistance,
     endLocations |-> IF Len(dist.endLocations) > 0 THEN Ptr(dist.endLocations) ELSE NULL,
     startLocations |-> starts,
     numLocations |-> Len(dist.endLocations),
     alignment |-> path,
     alignmentLength |-> IF path = NULL THEN 0 ELSE Len(path[1]),
     alphabetLength |-> AlphabetLength(query, target)]

\* The path of the first pair of locations, when the task asks for it.
TraceStage(query, target, config_c, dist, starts) ==
    AlignResultC(query, target, dist, starts,
                 IF starts # NULL /\ config_c.task = 2
                 THEN Ptr(PathTracer(query, target, starts[1][1], dist.endLocations[1],
                                     dist.editDistance))
                 ELSE NULL)

\* The start locations, when the task asks for them, a distance was found
\* and there is a target span to work on.
LocateStage(query, target, config_c, dist) ==
    TraceStage(query, target, config_c, dist,
               IF dist.editDistance # -1 /\ config_c.task >= 1
                  /\ Len(query) > 0 /\ Len(target) > 0
               THEN Ptr(LocationFinder(query, target, config_c.mode, dist.endLocations,
                                       dist.editDistance))
               ELSE NULL)

\* The stages on sequences of class ids: each later stage runs only if the
\* task needs it.  alphabetLength counts the characters of the raw sequences.
EngineAlign(query, target, config_c, alphabet) ==
    [LocateStage(query, target, config_c,
                 DistanceEngine(query, target, config_c.mode, config_c.k))
     EXCEPT !.alphabetLength = alphabet]

MappedAlign(query, target, config_c, cls) ==
    EngineAlign(Transform(query, cls), Transform(target, cls), config_c,
                AlphabetLength(query, target))

\* The equality pairs of a C configuration.
EqualitiesOf(config_c) ==
    IF config_c.additionalEqualities = NULL THEN << >>
    ELSE SubSeq(config_c.additionalEqualities[1], 1, config_c.additionalEqualitiesLength)

\* edlibAlign: the bytes are mapped to their classes, then the stages run.
edlibAlign(query, target, config_c) ==
    MappedAlign(query, target, config_c, ClassMap(query, target, EqualitiesOf(config_c)))

\* =============================================================== edlibrs.rs
\* A conversion that sends the global mode to the prefix mode.
ModeToC_nwAsShw(mode) ==
    CASE mode = EDLIB_MODE_NW -> 1
      [] mode = EDLIB_MODE_SHW -> 1
      [] mode = EDLIB_MODE_HW -> 2

\* A conversion that sends the infix mode to the prefix mode.
ModeToC_hwAsShw(mode) ==
    CASE mode = EDLIB_MODE_NW -> 0
      [] mode = EDLIB_MODE_SHW -> 1
      [] mode = EDLIB_MODE_HW -> 1

\* EdlibAlignModeRs -> EdlibAlignMode.
ModeToC(mode) ==
    CASE mode = EDLIB_MODE_NW -> 0
      [] mode = EDLIB_MODE_SHW -> 1
      [] mode = EDLIB_MODE_HW -> 2

\* EdlibAlignTaskRs -> EdlibAlignTask.
TaskToC(task) ==
    CASE task = EDLIB_TASK_DISTANCE -> 0
      [] task = EDLIB_TASK_LOC -> 1
      [] task = EDLIB_TASK_PATH -> 2

\* The pointer to the equality pairs: null when there are none.
EqualitiesPtr(pairs) == IF Len(pairs) > 0 THEN Ptr(pairs) ELSE NULL

\* A conversion that leaves k at the C default (-1).
ConfigToC_kNotCopied(cfg) ==
    [k |-> -1, mode |-> ModeToC(cfg.mode), task |-> TaskToC(cfg.task),
     additionalEqualitiesLength |-> Len(cfg.additionalequalities),
     additionalEqualities |-> EqualitiesPtr(cfg.additionalequalities)]

\* A conversion that casts k through a narrower type, keeping its lowest bit.
ConfigToC_kTruncated(cfg) ==
    [k |-> IF cfg.k < 0 THEN cfg.k ELSE cfg.k % 2,
     mode |-> ModeToC(cfg.mode), task |-> TaskToC(cfg.task),
     additionalEqualitiesLength |-> Len(cfg.additionalequalities),
     additionalEqualities |-> EqualitiesPtr(cfg.additionalequalities)]

\* A conversion that leaves the equality pairs at the C default (none).
ConfigToC_noEqualities(cfg) ==
    [k |-> cfg.k, mode |-> ModeToC(cfg.mode), task |-> TaskToC(cfg.task),
     additionalEqualitiesLength |-> 0,
     additionalEqualities |-> NULL]

\* The C configuration built from the Rust one.
ConfigToC(cfg) ==
    [k |-> cfg.k, mode |-> ModeToC(cfg.mode), task |-> TaskToC(cfg.task),
     additionalEqualitiesLength |-> Len(cfg.additionalequalities),
     additionalEqualities |-> EqualitiesPtr(cfg.additionalequalities)]

\* EdlibAlignResultRs::default().
DefaultResult ==
    [status |-> EDLIB_STATUS_OK,
     editDistance |-> 0,
     endLocations |-> None,
     startLocations |-> None,
     numLocations |-> 0,
     alignment |-> None,
     alphabetLength |-> 0]

\* A copy that stops one element short.
SliceToVec_short(ptr, len) == SubSeq(ptr[1], 1, len - 1)

\* slice::from_raw_parts(ptr, len).to_vec()
SliceToVec(ptr, len) == SubSeq(ptr[1], 1, len)

\* The assertions of edlibAlignRs on the C result.
AssertionsHold(res_c) ==
    /\ res_c.numLocations > 0 => res_c.endLocations # NULL
    /\ res_c.alignmentLength > 0 => res_c.alignment # NULL

\* The copy of the end locations.
CopyEndLocations(res_c) ==
    IF res_c.numLocations > 0
    THEN Some(SliceToVec(res_c.endLocations, res_c.numLocations))
    ELSE None

\* A copy of the start locations that takes the alignment's length for theirs.
CopyStartLocations_alignLen(res_c) ==
    IF res_c.numLocations > 0 /\ res_c.startLocations # NULL
    THEN Some(SubSeq(res_c.startLocations[1], 1, res_c.alignmentLength))
    ELSE None

\* The copy of the start locations, read only when there are end locations.
CopyStartLocations(res_c) ==
    IF res_c.numLocations > 0 /\ res_c.startLocations # NULL
    THEN Some(SliceToVec(res_c.startLocations, res_c.numLocations))
    ELSE None

\* A copy of the alignment that loses its last operation.
CopyAlignment_dropLast(res_c) ==
    IF res_c.alignmentLength > 0
    THEN Some(SubSeq(res_c.alignment[1], 1, res_c.alignmentLength - 1))
    ELSE None

\* The copy of the alignment.
CopyAlignment(res_c) ==
    IF res_c.alignmentLength > 0
    THEN Some(SliceToVec(res_c.alignment, res_c.alignmentLength))
    ELSE None

\* The result edlibAlignRs returns for a C result that passes its assertions.
ResultFromC(res_c) ==
    [status |-> res_c.status,
     editDistance |-> res_c.editDistance,
     endLocations |-> CopyEndLocations(res_c),
     startLocations |-> CopyStartLocations(res_c),
     numLocations |-> res_c.numLocations,
     alignment |-> CopyAlignment(res_c),
     alphabetLength |-> res_c.alphabetLength]

\* edlibAlignRs on a call that returns.
edlibAlignRs(q, t, config_rs) == ResultFromC(edlibAlign(q, t, ConfigToC(config_rs)))

\* ------------------------------------------------------------------- CIGAR
\* The letter of an edit operation in a CIGAR format.
MoveCodeToChar(cigarFormat, op) ==
    IF cigarFormat = 1
    THEN CASE op = EDLIB_EDOP_MATCH -> "="
           [] op = EDLIB_EDOP_INSERT -> "I"
           [] op = EDLIB_EDOP_DELETE -> "D"
           [] op = EDLIB_EDOP_MISMATCH -> "X"
    ELSE CASE op = EDLIB_EDOP_MATCH -> "M"
           [] op = EDLIB_EDOP_INSERT -> "I"
           [] op = EDLIB_EDOP_DELETE -> "D"
           [] op = EDLIB_EDOP_MISMATCH -> "M"

Digit(d) == CASE d = 0 -> "0" [] d = 1 -> "1" [] d = 2 -> "2" [] d = 3 -> "3"
              [] d = 4 -> "4" [] d = 5 -> "5" [] d = 6 -> "6" [] d = 7 -> "7"
              [] d = 8 -> "8" [] d = 9 -> "9"

\* A positive count in decimal, most significant digit first.
RECURSIVE Decimal(_)
Decimal(n) == IF n < 10 THEN <<Digit(n)>> ELSE Append(Decimal(n \div 10), Digit(n % 10))

\* CigarEncoder: the scan of the operations from index i, with the letter and
\* the length of the run being read and the characters written so far.
RECURSIVE CigarScan(_, _, _, _, _, _)
CigarScan(ops, cigarFormat, i, lastMove, numOfSameMoves, cigar) ==
    IF i > Len(ops) THEN (cigar \o Decimal(numOfSameMoves)) \o <<lastMove>>
    ELSE LET move == MoveCodeToChar(cigarFormat, ops[i])
         IN  IF move = lastMove
             THEN CigarScan(ops, cigarFormat, i + 1, lastMove, numOfSameMoves + 1, cigar)
             ELSE CigarScan(ops, cigarFormat, i + 1, move, 1,
                            (cigar \o Decimal(numOfSameMoves)) \o <<lastMove>>)

\* edlibAlignmentToCigar: NULL for an empty alignment, else the C string.
edlibAlignmentToCigar(ops, alignmentLength, cigarFormat) ==
    IF alignmentLength = 0 THEN NULL
    ELSE Ptr(CigarScan(ops, cigarFormat, 2, MoveCodeToChar(cigarFormat, ops[1]), 1, << >>))

\* A cast that takes the two formats for each other.
CigarFormatToC_swapped(format) ==
    CASE format = EDLIB_CIGAR_STANDARD -> 1
      [] format = EDLIB_CIGAR_EXTENDED -> 0

\* `*cigarFormat as u32`.
CigarFormatToC(format) ==
    CASE format = EDLIB_CIGAR_STANDARD -> 0
      [] format = EDLIB_CIGAR_EXTENDED -> 1

\* No assertion on the C string.
CigarAssertionHolds_missing(c_res) == TRUE

\* The assertion of edlibAlignmentToCigarRs on the C string.
CigarAssertionHolds(c_res) == c_res # NULL

\* CStr::from_ptr(c_res).to_string_lossy().into_owned(); the assertion before it
\* keeps a null pointer away.
CStrToString(c_res) == IF c_res = NULL THEN << >> ELSE c_res[1]

\* ============================================================ state machine
VARIABLES
    query,          \* edlibAlignRs: the query of the latest call
    target,         \* edlibAlignRs: its target
    config_rs,      \* edlibAlignRs: its configuration
    align_ret,      \* "none", "returned" or "panicked"
    align_res_rs,   \* the EdlibAlignResultRs returned
    alignment,      \* edlibAlignmentToCigarRs: the alignment of the latest call
    cigarFormat,    \* edlibAlignmentToCigarRs: its format
    cigar_ret,      \* "none", "returned" or "panicked"
    cigarstring,    \* the String returned, as Some(characters)
    pc,             \* edlibAlignRs step by step: the step the call is at
    res_c,          \* its EdlibAlignResult
    released        \* how many times each buffer of res_c was freed

vars == <<query, target, config_rs, align_ret, align_res_rs,
          alignment, cigarFormat, cigar_ret, cigarstring, pc, res_c, released>>
memVars == <<pc, res_c, released>>
alignVars == <<query, target, config_rs, align_ret, align_res_rs>>
cigarVars == <<alignment, cigarFormat, cigar_ret, cigarstring>>

\* The bytes of the generated sequences: 'A' and 'C'.
Bytes == {65, 67}

\* The sequences of the repository's tests.
ACCTCTG == <<65, 67, 67, 84, 67, 84, 71>>
ACTCTGAAA == <<65, 67, 84, 67, 84, 71, 65, 65, 65>>
Missing == <<109, 105, 115, 115, 105, 110, 103>>
Mississipi == <<109, 105, 115, 115, 105, 115, 115, 105, 112, 105>>

\* EdlibAlignConfigRs::default().
DefaultConfig ==
    [k |-> -1, mode |-> EDLIB_MODE_NW, task |-> EDLIB_TASK_DISTANCE,
     additionalequalities |-> << >>]

\* The configurations without additional equalities.
Configs ==
    [k : -1..MaxK, mode : EdlibAlignModeRs, task : EdlibAlignTaskRs,
     additionalequalities : {<< >>}]

\* The bytes of the sequences aligned under additional equalities: 'A', 'B'
\* and 'C'.
EqBytes == {65, 66, 67}

\* EdlibEqualityPairRs of two different bytes among those, and the lists of
\* them.
EqualityPairs == {p \in [first : EqBytes, second : EqBytes] : p.first # p.second}
EqualityLists == SeqsUpTo(EqualityPairs, MaxPairs)

\* The sequences and the pairs of test_distance_hw_with_pair.
TNCTCTXAAA ==
    [i \in 1..21 |-> 84] \o <<78, 67, 84, 67, 84, 88, 65, 65, 65>>
TestPairs == <<[first |-> 65, second |-> 78], [first |-> 71, second |-> 88]>>

\* The alignments edlibAlignmentToCigarRs is called on directly: every short
\* sequence of operations, and runs long enough for counts of two digits.
Repeat(x, n) == [i \in 1..n |-> x]
CigarInputs ==
    SeqsUpTo(EdlibEdopRs, MaxOps)
    \cup {Repeat(a, 9 + x) \o Repeat(b, y) : a \in EdlibEdopRs, b \in EdlibEdopRs,
                                                 x \in 0..MaxOps, y \in 0..1}

\* The pointers of an EdlibAlignResult.
BufferFields == {"endLocations", "startLocations", "alignment"}

\* An EdlibAlignResult before any call, and no buffer released.
NoResultC ==
    [status |-> EDLIB_STATUS_OK,
     editDistance |-> 0,
     endLocations |-> NULL,
     startLocations |-> NULL,
     numLocations |-> 0,
     alignment |-> NULL,
     alignmentLength |-> 0,
     alphabetLength |-> 0]
NoneReleased == [f \in BufferFields |-> 0]

Init ==
    /\ pc = "idle"
    /\ res_c = NoResultC
    /\ released = NoneReleased
    /\ query = << >>
    /\ target = << >>
    /\ config_rs = DefaultConfig
    /\ align_ret = "none"
    /\ align_res_rs = DefaultResult
    /\ alignment = << >>
    /\ cigarFormat = EDLIB_CIGAR_STANDARD
    /\ cigar_ret = "none"
    /\ cigarstring = None

CigarIdle ==
    /\ alignment' = << >>
    /\ cigarFormat' = EDLIB_CIGAR_STANDARD
    /\ cigar_ret' = "none"
    /\ cigarstring' = None

MemIdle ==
    /\ pc' = "idle"
    /\ res_c' = NoResultC
    /\ released' = NoneReleased

AlignIdle ==
    /\ query' = << >>
    /\ target' = << >>
    /\ config_rs' = DefaultConfig
    /\ align_ret' = "none"
    /\ align_res_rs' = DefaultResult

\* One call of edlibAlignRs: the configuration is converted, edlibAlign runs,
\* the result is checked and copied, the C result is freed.
AlignReturn(q, t, cfg, res) ==
    /\ query' = q
    /\ target' = t
    /\ config_rs' = cfg
    /\ IF AssertionsHold(res)
       THEN /\ align_ret' = "returned"
            /\ align_res_rs' = ResultFromC(res)
       ELSE /\ align_ret' = "panicked"
            /\ align_res_rs' = DefaultResult
    /\ CigarIdle
    /\ UNCHANGED memVars

AlignRs(q, t, cfg) == AlignReturn(q, t, cfg, edlibAlign(q, t, ConfigToC(cfg)))

Idle == align_ret = "none" /\ cigar_ret = "none"

\* A call on generated sequences.
AlignCall ==
    /\ Idle
    /\ \E q \in SeqsUpTo(Bytes, MaxLen), t \in SeqsUpTo(Bytes, MaxLen), cfg \in Configs :
        AlignRs(q, t, cfg)

\* A call on the sequences of the repository's tests.
AlignTestCall ==
    /\ Idle
    /\ \E qt \in {<<ACCTCTG, ACTCTGAAA>>, <<Missing, Mississipi>>},
       k \in {-1, 3}, mode \in EdlibAlignModeRs, task \in EdlibAlignTaskRs :
        AlignRs(qt[1], qt[2], [k |-> k, mode |-> mode, task |-> task,
                               additionalequalities |-> << >>])

\* One call of edlibAlignmentToCigarRs.
CigarReturn(ops, format, c_res) ==
    /\ alignment' = ops
    /\ cigarFormat' = format
    /\ IF CigarAssertionHolds(c_res)
       THEN /\ cigar_ret' = "returned"
            /\ cigarstring' = Some(CStrToString(c_res))
       ELSE /\ cigar_ret' = "panicked"
            /\ cigarstring' = None

AlignmentToCigarRs(ops, format) ==
    CigarReturn(ops, format, edlibAlignmentToCigar(ops, Len(ops), CigarFormatToC(format)))

\* The alignment just returned by edlibAlignRs is encoded.
CigarOfResult ==
    /\ align_ret = "returned"
    /\ cigar_ret = "none"
    /\ align_res_rs.alignment # None
    /\ \E format \in EdlibCigarFormatRs :
           AlignmentToCigarRs(align_res_rs.alignment[1], format)
    /\ UNCHANGED <<alignVars, memVars>>

\* An alignment built by the caller is encoded.
CigarCall ==
    /\ Idle
    /\ \E ops \in CigarInputs, format \in EdlibCigarFormatRs :
           AlignmentToCigarRs(ops, format)
    /\ AlignIdle
    /\ UNCHANGED memVars

\* The scenario ends: its values are dropped.
Finish ==
    /\ ~Idle
    /\ AlignIdle
    /\ CigarIdle
    /\ MemIdle

Next == AlignCall \/ AlignTestCall \/ CigarOfResult \/ CigarCall \/ Finish

Spec == Init /\ [][Next]_vars

\* ------------------------------------------ calls with additional equalities
\* A call with a list of equality pairs, k = -1.
AlignEqCall ==
    /\ Idle
    /\ \E q \in SeqsUpTo(EqBytes, MaxEqLen), t \in SeqsUpTo(EqBytes, MaxEqLen),
          mode \in EdlibAlignModeRs, task \in EdlibAlignTaskRs, pairs \in EqualityLists :
           AlignRs(q, t, [k |-> -1, mode |-> mode, task |-> task,
                          additionalequalities |-> pairs])

\* The call of test_distance_hw_with_pair.
AlignPairTestCall ==
    /\ Idle
    /\ AlignRs(ACCTCTG, TNCTCTXAAA,
               [k |-> -1, mode |-> EDLIB_MODE_HW, task |-> EDLIB_TASK_DISTANCE,
                additionalequalities |-> TestPairs])

NextEq == AlignEqCall \/ AlignPairTestCall \/ Finish

SpecEq == Init /\ [][NextEq]_vars

\* ------------------------------------------------ edlibAlignRs step by step
\* The buffers a C result points to.
Allocated(res) == {f \in BufferFields : res[f] # NULL}

\* edlibFreeAlignResult: each non-null pointer of the result is freed.
edlibFreeAlignResult(res, rel) ==
    [f \in BufferFields |-> IF res[f] # NULL THEN rel[f] + 1 ELSE rel[f]]

\* The C results that break the engine's invariant on one list: its length
\* is positive and its pointer is null.
BrokenResults(res) ==
    {[res EXCEPT !.endLocations = NULL] : x \in {y \in {1} : res.numLocations > 0}}
    \cup {[res EXCEPT !.alignment = NULL] : x \in {y \in {1} : res.alignmentLength > 0}}

\* The assertion on the end locations.
LocationsAssertionHolds(res) == res.numLocations > 0 => res.endLocations # NULL

\* The assertion on the alignment.
AlignmentAssertionHolds(res) == res.alignmentLength > 0 => res.alignment # NULL

\* The call is entered: the configuration is converted and edlibAlign has
\* returned its result.
MemEnter(q, t, cfg, res) ==
    /\ query' = q
    /\ target' = t
    /\ config_rs' = cfg
    /\ align_ret' = "none"
    /\ align_res_rs' = DefaultResult
    /\ res_c' = res
    /\ released' = NoneReleased
    /\ pc' = "locations"
    /\ CigarIdle

\* The configurations of the calls followed step by step.
MemConfigs ==
    [k : {-1}, mode : EdlibAlignModeRs, task : EdlibAlignTaskRs,
     additionalequalities : {<< >>}]

\* A call whose C result keeps the engine's invariants.
MemCall ==
    /\ Idle
    /\ pc = "idle"
    /\ \E q \in SeqsUpTo(Bytes, MaxLen), t \in SeqsUpTo(Bytes, MaxLen), cfg \in MemConfigs :
           MemEnter(q, t, cfg, edlibAlign(q, t, ConfigToC(cfg)))

\* A call whose C result breaks one of them.
MemBrokenCall ==
    /\ Idle
    /\ pc = "idle"
    /\ \E q \in SeqsUpTo(Bytes, MaxLen), t \in SeqsUpTo(Bytes, MaxLen), cfg \in MemConfigs :
           \E res \in BrokenResults(edlibAlign(q, t, ConfigToC(cfg))) :
               MemEnter(q, t, cfg, res)

\* The panic of a failed assertion: the call ends there, nothing is returned.
MemPanic ==
    /\ align_ret' = "panicked"
    /\ align_res_rs' = DefaultResult
    /\ pc' = "done"

\* status, editDistance, numLocations and the two lists of locations.
MemCopyLocations ==
    /\ pc = "locations"
    /\ IF LocationsAssertionHolds(res_c)
       THEN /\ align_res_rs' = [align_res_rs EXCEPT
                                   !.status = res_c.status,
                                   !.editDistance = res_c.editDistance,
                                   !.numLocations = res_c.numLocations,
                                   !.endLocations = CopyEndLocations(res_c),
                                   !.startLocations = CopyStartLocations(res_c)]
            /\ pc' = "alignment"
            /\ UNCHANGED align_ret
       ELSE MemPanic
    /\ UNCHANGED <<query, target, config_rs, res_c, released, cigarVars>>

\* The alignment and alphabetLength.
MemCopyAlignment ==
    /\ pc = "alignment"
    /\ IF AlignmentAssertionHolds(res_c)
       THEN /\ align_res_rs' = [align_res_rs EXCEPT
                                   !.alignment = CopyAlignment(res_c),
                                   !.alphabetLength = res_c.alphabetLength]
            /\ pc' = "free"
            /\ UNCHANGED align_ret
       ELSE MemPanic
    /\ UNCHANGED <<query, target, config_rs, res_c, released, cigarVars>>

\* The C result is freed.
MemFree ==
    /\ pc = "free"
    /\ released' = edlibFreeAlignResult(res_c, released)
    /\ pc' = "return"
    /\ UNCHANGED <<alignVars, res_c, cigarVars>>

\* align_res_rs is returned.
MemReturn ==
    /\ pc = "return"
    /\ align_ret' = "returned"
    /\ pc' = "done"
    /\ UNCHANGED <<query, target, config_rs, align_res_rs, res_c, released, cigarVars>>

NextMem ==
    MemCall \/ MemBrokenCall \/ MemCopyLocations \/ MemCopyAlignment
    \/ MemFree \/ MemReturn \/ Finish

SpecMem == Init /\ [][NextMem]_vars

\* ---------------------------------------------------- the repository's tests
TestsPass ==
    /\ (align_ret = "returned" /\ query = ACCTCTG /\ target = ACTCTGAAA /\ config_rs.k = -1)
       => /\ align_res_rs.status = EDLIB_STATUS_OK
          /\ config_rs.mode = EDLIB_MODE_NW => align_res_rs.editDistance = 4
          /\ config_rs.mode = EDLIB_MODE_SHW => align_res_rs.editDistance = 1
    /\ (align_ret = "returned" /\ query = ACCTCTG /\ target = ACTCTGAAA /\ config_rs.k = 3
        /\ config_rs.mode = EDLIB_MODE_NW)
       => align_res_rs.editDistance = -1
    /\ (align_ret = "returned" /\ query = Missing /\ target = Mississipi /\ config_rs.k = -1
        /\ config_rs.mode = EDLIB_MODE_HW /\ config_rs.task = EDLIB_TASK_PATH)
       => /\ align_res_rs.editDistance = 2
          /\ align_res_rs.startLocations # None
          /\ align_res_rs.endLocations # None
          /\ align_res_rs.alignment # None
          /\ (cigar_ret = "returned" /\ cigarFormat = EDLIB_CIGAR_STANDARD)
             => cigarstring = Some(<<"5", "M", "2", "I">>)
          /\ (cigar_ret = "returned" /\ cigarFormat = EDLIB_CIGAR_EXTENDED)
             => cigarstring = Some(<<"5", "=", "2", "I">>)
    /\ (align_ret = "returned" /\ query = ACCTCTG /\ target = TNCTCTXAAA
        /\ config_rs.mode = EDLIB_MODE_HW /\ config_rs.additionalequalities = TestPairs)
       => /\ align_res_rs.status = EDLIB_STATUS_OK
          /\ align_res_rs.editDistance = 1

\* ================================================================== claims
\* Unit-cost Levenshtein distance: the least number of single-symbol
\* insertions, deletions and substitutions that turn a into b.
RECURSIVE Levenshtein(_, _)
Levenshtein(a, b) ==
    IF a = << >> THEN Len(b)
    ELSE IF b = << >> THEN Len(a)
    ELSE IF a[1] = b[1] THEN Levenshtein(Tail(a), Tail(b))
    ELSE 1 + Min3(Levenshtein(Tail(a), b),
                  Levenshtein(a, Tail(b)),
                  Levenshtein(Tail(a), Tail(b)))

SetMin(S) == CHOOSE x \in S : \A y \in S : x <= y

\* Least distance of q to a prefix of t.
PrefixDistance(q, t) == SetMin({Levenshtein(q, SubSeq(t, 1, p)) : p \in 0..Len(t)})

\* Least distance of q to a contiguous substring of t (the empty one included).
InfixDistance(q, t) ==
    SetMin({Levenshtein(q, SubSeq(t, s, e)) : s \in 1..(Len(t) + 1), e \in 0..Len(t)})

\* The distance a mode asks for.
TrueDistance(q, t, mode) ==
    CASE mode = EDLIB_MODE_NW -> Levenshtein(q, t)
      [] mode = EDLIB_MODE_SHW -> PrefixDistance(q, t)
      [] mode = EDLIB_MODE_HW -> InfixDistance(q, t)

\* C1: in Global mode with a negative k, edlibAlignRs returns status Ok and
\* the Levenshtein distance of query and target (len(target) for an empty
\* query, len(query) for an empty target), never -1.
C1_GlobalDistance ==
    (align_ret # "none" /\ config_rs.mode = EDLIB_MODE_NW /\ config_rs.k < 0)
    => /\ align_ret = "returned"
       /\ align_res_rs.status = EDLIB_STATUS_OK
       /\ align_res_rs.editDistance # -1
       /\ align_res_rs.editDistance = Levenshtein(query, target)
       /\ query = << >> => align_res_rs.editDistance = Len(target)
       /\ target = << >> => align_res_rs.editDistance = Len(query)

\* A global call with negative k whose distance needed the bound doubled twice.
C1_Witness ==
    /\ align_ret = "returned"
    /\ config_rs.mode = EDLIB_MODE_NW
    /\ config_rs.k < 0
    /\ Len(query) > 0
    /\ Len(target) > Len(query)
    /\ align_res_rs.editDistance > 2 * AutoStartK

\* C2: with a negative k, Prefix mode returns the least Levenshtein distance
\* of the query to a prefix of the target, and Infix mode the least distance
\* of the query to a contiguous substring of the target.
C2_PrefixInfixDistance ==
    (align_ret # "none" /\ config_rs.k < 0)
    => /\ config_rs.mode = EDLIB_MODE_SHW
          => align_res_rs.editDistance = PrefixDistance(query, target)
       /\ config_rs.mode = EDLIB_MODE_HW
          => align_res_rs.editDistance = InfixDistance(query, target)

\* An infix call where the free leading target symbols matter: the infix
\* distance is below the prefix distance, which is below the global one.
C2_Witness ==
    /\ align_ret = "returned"
    /\ config_rs.mode = EDLIB_MODE_HW
    /\ config_rs.k < 0
    /\ align_res_rs.editDistance < PrefixDistance(query, target)
    /\ PrefixDistance(query, target) < Levenshtein(query, target)

\* C3: with k >= 0 and a true distance above k, edlibAlignRs returns status
\* Ok, editDistance -1, no end locations, no start locations, no alignment
\* and numLocations 0; and editDistance is -1 only in that case.
C3_BoundExceeded ==
    align_ret # "none"
    => LET exceeded == config_rs.k >= 0
                       /\ TrueDistance(query, target, config_rs.mode) > config_rs.k
       IN  /\ exceeded
              => /\ align_ret = "returned"
                 /\ align_res_rs.status = EDLIB_STATUS_OK
                 /\ align_res_rs.editDistance = -1
                 /\ align_res_rs.endLocations = None
                 /\ align_res_rs.startLocations = None
                 /\ align_res_rs.alignment = None
                 /\ align_res_rs.numLocations = 0
           /\ align_res_rs.editDistance = -1 => exceeded

\* A path was asked for, with a bound just below the true distance.
C3_Witness ==
    /\ align_ret = "returned"
    /\ config_rs.task = EDLIB_TASK_PATH
    /\ config_rs.k >= 1
    /\ TrueDistance(query, target, config_rs.mode) = config_rs.k + 1
    /\ align_res_rs.editDistance = -1

\* C4: for fixed query, target, mode and task and bounds 0 <= k1 < k2, a
\* distance other than -1 returned with k1 is returned with k2 as well.
C4_Monotonic ==
    (align_ret = "returned" /\ config_rs.k >= 0 /\ align_res_rs.editDistance # -1)
    => \A k2 \in (config_rs.k + 1)..(MaxK + 1) :
           edlibAlignRs(query, target, [config_rs EXCEPT !.k = k2]).editDistance
               = align_res_rs.editDistance

\* A call that found a positive distance equal to its bound k1 < MaxK.
C4_Witness ==
    /\ align_ret = "returned"
    /\ config_rs.k >= 1
    /\ config_rs.k < MaxK
    /\ align_res_rs.editDistance = config_rs.k

\* The end locations returned, as a sequence (empty when absent).
EndsReturned == IF align_res_rs.endLocations = None THEN << >> ELSE align_res_rs.endLocations[1]

\* The score of the whole query q ending at target position j (zero-based):
\* 0 for an empty query; in prefix mode the distance to the prefix ending at
\* j, in infix mode the least distance to a substring ending at j.
ScoreAt(q, t, mode, j) ==
    IF q = << >> THEN 0
    ELSE IF mode = EDLIB_MODE_SHW THEN Levenshtein(q, SubSeq(t, 1, j + 1))
    ELSE SetMin({Levenshtein(q, SubSeq(t, s, j + 1)) : s \in 1..(j + 2)})

ExpectedEnds(q, t, mode, d) ==
    IF mode = EDLIB_MODE_NW THEN {Len(t) - 1}
    ELSE {j \in 0..(Len(t) - 1) : ScoreAt(q, t, mode, j) = d}

\* C5: when editDistance is not -1, endLocations is strictly ascending and
\* holds exactly the target end positions whose score is the distance
\* returned: in Prefix and Infix mode every such position (every target
\* position for an empty query), in Global mode the position len(target)-1.
C5_EndLocations ==
    (align_ret = "returned" /\ align_res_rs.editDistance # -1)
    => /\ \A i \in 1..(Len(EndsReturned) - 1) : EndsReturned[i] < EndsReturned[i + 1]
       /\ {EndsReturned[i] : i \in 1..Len(EndsReturned)}
              = ExpectedEnds(query, target, config_rs.mode, align_res_rs.editDistance)

\* An infix call of a non-empty query with several end positions, not all of
\* the target's.
C5_Witness ==
    /\ align_ret = "returned"
    /\ config_rs.mode = EDLIB_MODE_HW
    /\ query # << >>
    /\ align_res_rs.editDistance > 0
    /\ Len(EndsReturned) >= 2
    /\ Len(EndsReturned) < Len(target)

RECURSIVE WalkOk(_, _, _, _, _, _, _, _)
WalkOk(path, q, span, i, qi, tj, qOnly, tOnly) ==
    IF i > Len(path) THEN qi = Len(q) /\ tj = Len(span)
    ELSE IF path[i] \in {EDLIB_EDOP_MATCH, EDLIB_EDOP_MISMATCH}
    THEN /\ qi < Len(q)
         /\ tj < Len(span)
         /\ (q[qi + 1] = span[tj + 1]) <=> (path[i] = EDLIB_EDOP_MATCH)
         /\ WalkOk(path, q, span, i + 1, qi + 1, tj + 1, qOnly, tOnly)
    ELSE IF path[i] = qOnly
    THEN qi < Len(q) /\ WalkOk(path, q, span, i + 1, qi + 1, tj, qOnly, tOnly)
    ELSE tj < Len(span) /\ WalkOk(path, q, span, i + 1, qi, tj + 1, qOnly, tOnly)

\* The round trip of the returned path, for a reading of the two insertions.
RoundTrip(qOnly, tOnly) ==
    (align_ret = "returned" /\ align_res_rs.alignment # None)
    => /\ align_res_rs.startLocations # None
       /\ align_res_rs.endLocations # None
       /\ WalkOk(align_res_rs.alignment[1], query,
                 SubSeq(target, align_res_rs.startLocations[1][1] + 1,
                        align_res_rs.endLocations[1][1] + 1),
                 1, 0, 0, qOnly, tOnly)
       /\ Cardinality({i \in 1..Len(align_res_rs.alignment[1]) :
                           align_res_rs.alignment[1][i] # tOnly}) = Len(query)

\* C7 as stated: the walk of a returned path, InsertToQuery (2) consuming a
\* query symbol and InsertToTarget (1) a target symbol, uses up the query and
\* the span [startLocations[0], endLocations[0]], and the entries other than
\* InsertToTarget number len(query).
C7_RoundTrip_AsStated == RoundTrip(EDLIB_EDOP_DELETE, EDLIB_EDOP_INSERT)

\* C7 amended: the walk of a returned path, InsertToTarget (1) consuming a
\* query symbol and InsertToQuery (2) a target symbol, uses up the query and
\* the span [startLocations[0], endLocations[0]], Match pairs equal symbols
\* and Mismatch unequal ones, and the entries other than InsertToQuery number
\* len(query).
C7_RoundTrip == RoundTrip(EDLIB_EDOP_INSERT, EDLIB_EDOP_DELETE)

\* A path with both insertions and a match.
C7_Witness ==
    /\ align_ret = "returned"
    /\ align_res_rs.alignment # None
    /\ \E i, j, l \in 1..Len(align_res_rs.alignment[1]) :
           /\ align_res_rs.alignment[1][i] = EDLIB_EDOP_INSERT
           /\ align_res_rs.alignment[1][j] = EDLIB_EDOP_DELETE
           /\ align_res_rs.alignment[1][l] = EDLIB_EDOP_MATCH

\* The letter of an operation in a format, as the claim gives it.
CigarLetter(format, op) ==
    IF format = EDLIB_CIGAR_STANDARD
    THEN (IF op \in {EDLIB_EDOP_MATCH, EDLIB_EDOP_MISMATCH} THEN "M"
          ELSE IF op = EDLIB_EDOP_INSERT THEN "I" ELSE "D")
    ELSE (IF op = EDLIB_EDOP_MATCH THEN "="
          ELSE IF op = EDLIB_EDOP_MISMATCH THEN "X"
          ELSE IF op = EDLIB_EDOP_INSERT THEN "I" ELSE "D")

Digits == <<"0", "1", "2", "3", "4", "5", "6", "7", "8", "9">>
DigitValue(c) == (CHOOSE d \in 1..10 : Digits[d] = c) - 1
IsDigit(c) == \E d \in 1..10 : Digits[d] = c

\* The tokens of a CIGAR string read from character i on; count is the number
\* read so far (-1: none).  A string outside the grammar (a letter with no
\* count, a count with no letter, a leading zero) yields a token of count 0.
BadToken == [count |-> 0, letter |-> "?"]
RECURSIVE ParseCigar(_, _, _, _)
ParseCigar(str, i, count, toks) ==
    IF i > Len(str) THEN (IF count = -1 THEN toks ELSE Append(toks, BadToken))
    ELSE IF IsDigit(str[i])
    THEN IF count = -1
         THEN (IF str[i] = "0" THEN Append(toks, BadToken)
               ELSE ParseCigar(str, i + 1, DigitValue(str[i]), toks))
         ELSE ParseCigar(str, i + 1, 10 * count + DigitValue(str[i]), toks)
    ELSE IF count = -1 THEN Append(toks, BadToken)
    ELSE ParseCigar(str, i + 1, -1, Append(toks, [count |-> count, letter |-> str[i]]))

\* The letters the tokens stand for, run by run.
RECURSIVE Expand(_)
Expand(toks) ==
    IF toks = << >> THEN << >>
    ELSE [i \in 1..toks[1].count |-> toks[1].letter] \o Expand(Tail(toks))

\* The string returned is the run-length encoding of ops in format.
IsRunLength(str, ops, format) ==
    LET toks == ParseCigar(str, 1, -1, << >>)
    IN  /\ \A i \in 1..Len(toks) : toks[i].count >= 1
        /\ \A i \in 1..(Len(toks) - 1) : toks[i].letter # toks[i + 1].letter
        /\ Expand(toks) = [i \in 1..Len(ops) |-> CigarLetter(format, ops[i])]

\* C8: for a non-empty operation sequence edlibAlignmentToCigarRs returns its
\* run-length encoding under the format's letter map: tokens <count><letter>
\* with count >= 1 in decimal, adjacent tokens of different letters, the
\* letters run by run those of the operations (so the counts sum to the
\* path length; Match and Mismatch share M in Standard, not in Extended).
C8_CigarRunLength ==
    (cigar_ret # "none" /\ alignment # << >>)
    => /\ cigar_ret = "returned"
       /\ cigarstring # None
       /\ IsRunLength(cigarstring[1], alignment, cigarFormat)

\* A Standard encoding where a Match before a Mismatch closes a run of ten.
C8_Witness ==
    /\ cigar_ret = "returned"
    /\ cigarFormat = EDLIB_CIGAR_STANDARD
    /\ Len(alignment) = 10
    /\ alignment[9] = EDLIB_EDOP_MATCH
    /\ alignment[10] = EDLIB_EDOP_MISMATCH
    /\ cigarstring = Some(<<"1", "0", "M">>)

\* C9: edlibAlignmentToCigarRs on an empty operation sequence fails in
\* either format (a panic, not the bound-exceeded result) and returns no
\* string, empty or partial.
C9_CigarEmptyFails ==
    (cigar_ret # "none" /\ alignment = << >>)
    => /\ cigar_ret = "panicked"
       /\ cigarstring = None

\* A call on the empty sequence in the Extended format.
C9_Witness ==
    /\ cigar_ret = "panicked"
    /\ alignment = << >>
    /\ cigarFormat = EDLIB_CIGAR_EXTENDED

\* C10: when editDistance is not -1 the task fixes the fields present:
\* DistanceOnly gives endLocations only; Locations gives endLocations and
\* startLocations; Path gives endLocations, startLocations and alignment.
C10_TaskFields ==
    (align_ret = "returned" /\ align_res_rs.editDistance # -1)
    => /\ align_res_rs.endLocations # None
       /\ (align_res_rs.startLocations # None)
              <=> (config_rs.task \in {EDLIB_TASK_LOC, EDLIB_TASK_PATH})
       /\ (align_res_rs.alignment # None) <=> (config_rs.task = EDLIB_TASK_PATH)

\* ------------------------------------------------------- equality classes
\* The bytes linked to a byte of S by a chain of declared pairs, each pair
\* read in either direction.
RECURSIVE Closure(_, _)
Closure(S, pairs) ==
    LET N == (S \cup {pairs[i].second : i \in {j \in 1..Len(pairs) : pairs[j].first \in S}})
                \cup {pairs[i].first : i \in {j \in 1..Len(pairs) : pairs[j].second \in S}}
    IN IF N = S THEN S ELSE Closure(N, pairs)

\* The class of a byte in the reflexive, symmetric and transitive closure.
ClassOf(b, pairs) == Closure({b}, pairs)

\* A sequence with every byte replaced by the least byte of its class: two
\* bytes become equal exactly when they lie in the same class.
Canon(s, pairs) == [i \in 1..Len(s) |-> SetMin(ClassOf(s[i], pairs))]

\* The bytes occurring in query and target.
Occurring == {query[i] : i \in 1..Len(query)} \cup {target[j] : j \in 1..Len(target)}

\* The distance of the call is the one with bytes of one class matching.
ClassesMatch ==
    (align_ret # "none" /\ config_rs.k < 0
     /\ Len(query) <= MaxEqLen /\ Len(target) <= MaxEqLen)
    => /\ align_ret = "returned"
       /\ align_res_rs.status = EDLIB_STATUS_OK
       /\ align_res_rs.editDistance =
              TrueDistance(Canon(query, config_rs.additionalequalities),
                           Canon(target, config_rs.additionalequalities),
                           config_rs.mode)

\* C11 as stated: bytes match exactly when they lie in the same class of the
\* closure of the declared pairs, and alphabetLength is the number of distinct
\* classes among the bytes occurring in query and target.
C11_ClassCount ==
    /\ ClassesMatch
    /\ align_ret = "returned"
       => align_res_rs.alphabetLength =
              Cardinality({ClassOf(b, config_rs.additionalequalities) : b \in Occurring})

\* C11: bytes match exactly when they lie in the same class of the reflexive,
\* symmetric and transitive closure of the declared pairs (A=B and B=C make A
\* match C), and alphabetLength is the number of different bytes occurring in
\* query and target (0 when both are empty), whatever the pairs.
C11_Equalities ==
    /\ ClassesMatch
    /\ align_ret = "returned"
       => /\ align_res_rs.alphabetLength = Cardinality(Occurring)
          /\ (query = << >> /\ target = << >>) => align_res_rs.alphabetLength = 0

\* 'A' aligned to 'C' under A=B and B=C: distance 0 through the chain, two
\* different bytes in one class.
C11_Witness ==
    /\ align_ret = "returned"
    /\ query = <<65>>
    /\ target = <<67>>
    /\ config_rs.k < 0
    /\ config_rs.additionalequalities =
           <<[first |-> 65, second |-> 66], [first |-> 66, second |-> 67]>>
    /\ align_res_rs.editDistance = 0
    /\ align_res_rs.alphabetLength = 2

\* ------------------------------------------------------- release of buffers
\* The call has ended, by a return or by a failed assertion.
CallEnded == pc = "done"

\* Every buffer of the call was released exactly once.
AllReleasedOnce ==
    \A f \in BufferFields : released[f] = (IF f \in Allocated(res_c) THEN 1 ELSE 0)

\* Nothing is released before the three lists were copied.
ReleaseAfterCopies ==
    (\E f \in BufferFields : released[f] > 0)
    => /\ pc \in {"return", "done"}
       /\ align_res_rs.endLocations = CopyEndLocations(res_c)
       /\ align_res_rs.startLocations = CopyStartLocations(res_c)
       /\ align_res_rs.alignment = CopyAlignment(res_c)

\* The result returned holds its own copies of the lists, whatever became of
\* the buffers they were read from.
ResultOwnsCopies ==
    align_ret = "returned" => align_res_rs = ResultFromC(res_c)

\* On the path of a normal return the buffers are released exactly once,
\* after the copies.
ReleasedOnReturn ==
    /\ align_ret = "returned" => AllReleasedOnce
    /\ ReleaseAfterCopies
    /\ ResultOwnsCopies

\* C12: on every path by which one edlibAlignRs call ends (normal return or
\* failed assertion) every buffer allocated for the call has been released
\* exactly once when the call ends, the release happens only after the copies
\* of endLocations, startLocations and alignment, and no field of the result
\* returned refers to a released buffer.
C12_ReleasedOnEveryPath ==
    /\ CallEnded => AllReleasedOnce
    /\ ReleaseAfterCopies
    /\ ResultOwnsCopies

\* A call ended by the assertion on the alignment with its end locations
\* never released.
LeakOnPanic ==
    /\ CallEnded
    /\ align_ret = "panicked"
    /\ "endLocations" \in Allocated(res_c)
    /\ released["endLocations"] = 0

\* A call that returned with three buffers released.
ReturnWithThreeReleased ==
    /\ align_ret = "returned"
    /\ Allocated(res_c) = BufferFields
    /\ AllReleasedOnce

====
